---- MODULE Spec2Model ----
(***************************************************************************)
(* Model of gavin/minimjpeg.py: the motion-JPEG-over-HTTP broadcast        *)
(* driver handle_frame, its process-wide registry SERVERS guarded by       *)
(* SERVERS_LOCK, the per-endpoint lock, the client table and the           *)
(* per-channel last-broadcast table.                                       *)
(*                                                                         *)
(* Times are integers in microseconds (1.0 s = OneSecond).  Sockets, the   *)
(* peer's requests, bind() and the JPEG encoder are the environment: their *)
(* outcomes are drawn nondeterministically inside the step that uses them. *)
(***************************************************************************)
EXTENDS Integers, FiniteSets, Sequences, TLC

\* ---------------------------------------------------------------------
\* Bounds and input sets
\* ---------------------------------------------------------------------
Threads == {"t1", "t2"}
Addrs == {"A", "B"}
Remotes == {"r1", "r2"}
Channels == {"", "0"}

\* Largest number of clock ticks, and the length of one tick (microseconds).
MaxTicks == 2
TickStep == 5000

OneSecond == 1000000
MsPerSecond == 1000

\* Reading of the monotonic timer when the program starts.
StartTime == OneSecond

\* len(STREAM_HEADER) and the length of one multipart chunk (bytes).
HeaderLen == 105
FrameLen == 500

\* Arity of the client tuple stored at accept, and of the unpack pattern
\* used by the shutdown loop.
ClientTupleLen == 6
ShutdownUnpackLen == 5

NoThread == "none"
NoneChan == "<None>"
NoTime == -1
\* A parameter token that int()/float() reject (e.g. "abc").
BadInt == -1

MinDelays == {10000}
MaxQualities == {95}
DefaultChans == {""}
DefaultQualities == {80}
DefaultDelays == {40000}

VARIABLES clock, cfg, SERVERS, SERVERS_LOCK, listening, pc, call, loc, eff, hist

vars == <<clock, cfg, SERVERS, SERVERS_LOCK, listening, pc, call, loc, eff, hist>>

\* ---------------------------------------------------------------------
\* Dict helpers
\* ---------------------------------------------------------------------
EmptyDict == [x \in {} |-> 0]

Put(f, k, v) == [x \in (DOMAIN f) \cup {k} |-> IF x = k THEN v ELSE f[x]]

\* del d[k] that leaves the entry in place.
Del_Keeps(f, k) == f

Del(f, k) == [x \in (DOMAIN f) \ {k} |-> f[x]]

\* list(d.keys()) that is never taken.
Keys_Empty(f) == {}

\* list(d.keys())
Keys(f) == DOMAIN f

Max(a, b) == IF a >= b THEN a ELSE b

Min(a, b) == IF a <= b THEN a ELSE b

RECURSIVE MaxOf(_)
MaxOf(S) == IF S = {} THEN 0
            ELSE LET x == CHOOSE y \in S : TRUE
                 IN  Max(x, MaxOf(S \ {x}))

\* ---------------------------------------------------------------------
\* Records
\* ---------------------------------------------------------------------
NoCall == [frame |-> "img", channel |-> "", addr |-> "A",
           default_chan |-> "", default_quality |-> 0, default_delay |-> 0]

NoLoc == [now |-> 0, lock |-> FALSE, ret |-> {}, sent |-> 0, receivers |-> {}]

NoEff == [unseenAtCall |-> FALSE, created |-> FALSE, preRegistered |-> FALSE, pre |-> EmptyDict,
          step5 |-> EmptyDict, post |-> EmptyDict, registeredAtReturn |-> FALSE,
          accepted |-> {}, closed |-> {}, serverClosed |-> FALSE,
          removed |-> {}, hdrs |-> {}, encodes |-> 0, encQuality |-> 0,
          attempted |-> {}, delivered |-> {},
          raised |-> "", skipped |-> "", outcome |-> "",
          prevSend |-> NoTime, prevTorn |-> FALSE, lockErr |-> FALSE,
          inp |-> EmptyDict, pages |-> {}, pageList |-> <<>>,
          sentQuality |-> EmptyDict, lt5 |-> EmptyDict, ltPost |-> EmptyDict]

NewEndpoint == [lock |-> NoThread, last_times |-> EmptyDict, clients |-> EmptyDict]

\* A record whose last_sent starts at the timer reading, not at 0.0.
NewClient_StampedAtStart(c) ==
    [chan |-> c.default_chan, quality |-> c.default_quality,
     delay |-> c.default_delay, last_sent |-> StartTime, headers_sent |-> FALSE]

NewClient(c) == [chan |-> c.default_chan, quality |-> c.default_quality,
                 delay |-> c.default_delay, last_sent |-> 0, headers_sent |-> FALSE]

\* ---------------------------------------------------------------------
\* Requests a peer can have written to its socket by the time it is polled
\* ---------------------------------------------------------------------
Req(kind, path, params, sendOk) ==
    [kind |-> kind, path |-> path, params |-> params, sendOk |-> sendOk]

ClientInputs ==
    { Req("idle", "", EmptyDict, TRUE),
      Req("closed", "", EmptyDict, TRUE),
      Req("error", "", EmptyDict, TRUE),
      Req("request", "index.html", EmptyDict, TRUE),
      Req("request", "", EmptyDict, TRUE),
      Req("request", "?query", [channel |-> "0", quality |-> 99, delay |-> 5], TRUE),
      Req("request", "?query", [source |-> "0"], FALSE),
      Req("request", "?query", [quality |-> BadInt], TRUE) }

\* ---------------------------------------------------------------------
\* Request handling for one polled client (the body of the for loop)
\* ---------------------------------------------------------------------
\* Result of one loop iteration: keep = the record stays in the table,
\* rec = its new value, closed = sock.close() was called, hdr = the stream
\* header was written, page = the directory page was written,
\* bytes = what the iteration adds to `sent`.
Outcome(keep, rec, closed, hdr, page, bytes) ==
    [keep |-> keep, rec |-> rec, closed |-> closed, hdr |-> hdr,
     page |-> page, bytes |-> bytes]

Dropped(rec) == Outcome(FALSE, rec, FALSE, FALSE, FALSE, 0)

\* The directory page is handed to send() as a str: unlike STREAM_HEADER
\* and the frame chunk it is never .encode()d, and the package is Python 3
\* (setup.py classifiers), where send() raises TypeError for a str.
PageIsBytes == FALSE

\* Channel names in lexicographic order, and sorted(last_times.keys()).
ChannelOrder == <<"", "0">>

SortedKeys(last_times) ==
    LET Known(c) == c \in DOMAIN last_times
    IN  SelectSeq(ChannelOrder, Known)

WantsIndex(in, c) ==
    \/ in.path = "index.html"
    \/ (in.path = "" /\ c.default_chan = NoneChan)

\* int(params.get('quality', quality)); BadInt when int() raises.
QualityToken(rec, in) ==
    IF "quality" \in DOMAIN in.params THEN in.params.quality ELSE rec.quality

\* float(params.get('delay', delay)) * 1e-3, in microseconds.  A delay
\* parameter is a count of milliseconds; the fallback is the record's
\* delay, which is already in seconds, multiplied by 1e-3 all the same.
ScaledDelay(rec, in) ==
    IF "delay" \in DOMAIN in.params
    THEN in.params.delay * (OneSecond \div MsPerSecond)
    ELSE rec.delay \div MsPerSecond

DelayToken(rec, in) ==
    IF "delay" \in DOMAIN in.params THEN in.params.delay ELSE rec.delay

ChanToken(rec, in) ==
    IF "channel" \in DOMAIN in.params THEN in.params.channel
    ELSE IF "source" \in DOMAIN in.params THEN in.params.source
    ELSE rec.chan

Negotiated(rec, in, min_delay, max_quality) ==
    [chan |-> ChanToken(rec, in),
     quality |-> Min(max_quality, QualityToken(rec, in)),
     delay |-> Max(min_delay, ScaledDelay(rec, in)),
     last_sent |-> rec.last_sent,
     headers_sent |-> TRUE]

ProcessClient(rec, in, c, min_delay, max_quality) ==
    IF in.kind = "idle" THEN Outcome(TRUE, rec, FALSE, FALSE, FALSE, 0)
    ELSE IF in.kind \in {"closed", "error"} THEN Dropped(rec)
    ELSE IF WantsIndex(in, c)
         THEN IF in.sendOk /\ PageIsBytes
              THEN Outcome(FALSE, rec, TRUE, FALSE, TRUE, 0)
              ELSE Dropped(rec)
    ELSE IF QualityToken(rec, in) = BadInt \/ DelayToken(rec, in) = BadInt
         THEN Dropped(rec)
    ELSE IF in.sendOk
         THEN Outcome(TRUE, Negotiated(rec, in, min_delay, max_quality),
                      FALSE, TRUE, FALSE, HeaderLen)
         ELSE Dropped(rec)

\* The receiver test without the channel comparison.
IsReceiver_AnyChannel(rec, channel, now) ==
    /\ rec.headers_sent
    /\ now - rec.last_sent >= rec.delay

\* The receiver test of the list comprehension.
IsReceiver(rec, channel, now) ==
    /\ rec.headers_sent
    /\ rec.chan = channel
    /\ now - rec.last_sent >= rec.delay

ReceiversOf(clients, channel, now) ==
    {r \in DOMAIN clients : IsReceiver(clients[r], channel, now)}

RateLimited(last_times, channel, now, min_delay) ==
    now - last_times[channel] < min_delay

RECURSIVE SumBytes(_, _)

\* A round that does not count the stream headers it wrote.
SumBytes_Zero(res, S) == 0

\* sent += len(STREAM_HEADER), over the clients polled.
SumBytes(res, S) ==
    IF S = {} THEN 0
    ELSE LET x == CHOOSE y \in S : TRUE
         IN  res[x].bytes + SumBytes(res, S \ {x})

\* ---------------------------------------------------------------------
\* Locks
\* ---------------------------------------------------------------------
\* threading.Lock.release(): frees the lock; releasing a lock this thread
\* does not hold is recorded in lockErr.
\* An exit path that forgets SERVERS_LOCK.release().
ReleasedRegistry_Forgotten(t) == SERVERS_LOCK

\* SERVERS_LOCK.release()
ReleasedRegistry(t) == IF SERVERS_LOCK = t THEN NoThread ELSE SERVERS_LOCK

\* An exit path that forgets lock.release().
ReleasedEndpoint_Forgotten(ep, t) == ep

ReleasedEndpoint(ep, t) == [ep EXCEPT !.lock = IF ep.lock = t THEN NoThread ELSE ep.lock]

HoldsEndpoint(t, a) == a \in DOMAIN SERVERS /\ SERVERS[a].lock = t

Returned(e, S, a) ==
    [e EXCEPT !.outcome = "returned",
              !.registeredAtReturn = (a \in DOMAIN S),
              !.ltPost = IF a \in DOMAIN S THEN S[a].last_times ELSE EmptyDict,
              !.post = IF a \in DOMAIN S THEN S[a].clients ELSE EmptyDict]

\* lock.release(); SERVERS_LOCK.release(); return ret, sent
ReleaseBothAndReturn(t, ep, e) ==
    LET a == call[t].addr
        S == [SERVERS EXCEPT ![a] = ReleasedEndpoint(ep, t)]
    IN  /\ SERVERS' = S
        /\ SERVERS_LOCK' = ReleasedRegistry(t)
        /\ eff' = [eff EXCEPT ![t] =
                     Returned([e EXCEPT !.lockErr =
                                 e.lockErr \/ ep.lock # t \/ SERVERS_LOCK # t], S, a)]
        /\ pc' = [pc EXCEPT ![t] = "done"]

\* ---------------------------------------------------------------------
\* Initial state
\* ---------------------------------------------------------------------
Init ==
    /\ clock = StartTime
    /\ cfg \in [min_delay : MinDelays, max_quality : MaxQualities]
    /\ SERVERS = EmptyDict
    /\ SERVERS_LOCK = NoThread
    /\ listening = [a \in Addrs |-> 0]
    /\ pc = [t \in Threads |-> "idle"]
    /\ call = [t \in Threads |-> NoCall]
    /\ loc = [t \in Threads |-> NoLoc]
    /\ eff = [t \in Threads |-> NoEff]
    /\ hist = [lastSend |-> [a \in Addrs |-> [c \in Channels |-> NoTime]],
               torn |-> [a \in Addrs |-> [c \in Channels |-> FALSE]],
               removedOnce |-> [a \in Addrs |-> FALSE]]

\* ---------------------------------------------------------------------
\* handle_frame, step by step
\* ---------------------------------------------------------------------
CallArgs(frames, channels, addrs) ==
    [frame : frames, channel : channels, addr : addrs,
     default_chan : DefaultChans, default_quality : DefaultQualities,
     default_delay : DefaultDelays]

\* A lookup that never finds the entry.
Missing_Always(a) == TRUE

\* if local_address not in SERVERS
Missing(a) == a \notin DOMAIN SERVERS

\* A thread enters handle_frame.
Call(t, c) ==
    /\ pc[t] = "idle"
    /\ pc' = [pc EXCEPT ![t] = "L131"]
    /\ call' = [call EXCEPT ![t] = c]
    /\ loc' = [loc EXCEPT ![t] = NoLoc]
    /\ eff' = [eff EXCEPT ![t] = [NoEff EXCEPT !.unseenAtCall = Missing(c.addr)]]
    /\ UNCHANGED <<clock, cfg, SERVERS, SERVERS_LOCK, listening, hist>>

\* SERVERS_LOCK.acquire(); now = timer().  The timer is monotonic: it
\* returns the previous reading or a later one.
AcquireRegistry(t, maxAdvance) ==
    /\ pc[t] = "L131"
    /\ SERVERS_LOCK = NoThread
    /\ SERVERS_LOCK' = t
    /\ \E k \in 0..maxAdvance :
         /\ clock + k * TickStep <= StartTime + MaxTicks * TickStep
         /\ clock' = clock + k * TickStep
    /\ loc' = [loc EXCEPT ![t].now = clock']
    /\ pc' = [pc EXCEPT ![t] = "L136"]
    /\ UNCHANGED <<cfg, SERVERS, listening, call, eff, hist>>

\* Lookup, or socket()/bind()/listen() and registration of a new endpoint.
Resolve(t) ==
    LET a == call[t].addr IN
    /\ pc[t] = "L136"
    /\ IF Missing(a)
       THEN \E bindOk \in BOOLEAN :
              IF bindOk
              THEN /\ SERVERS' = Put(SERVERS, a, NewEndpoint)
                   /\ listening' = [listening EXCEPT ![a] = @ + 1]
                   /\ loc' = [loc EXCEPT ![t].lock = TRUE]
                   /\ eff' = [eff EXCEPT ![t].created = TRUE]
                   /\ pc' = [pc EXCEPT ![t] = "L143"]
              ELSE /\ eff' = [eff EXCEPT ![t].raised = "bind"]
                   /\ pc' = [pc EXCEPT ![t] = "L234"]
                   /\ UNCHANGED <<SERVERS, listening, loc>>
       ELSE /\ eff' = [eff EXCEPT ![t].preRegistered = TRUE]
            /\ pc' = [pc EXCEPT ![t] = "L143"]
            /\ UNCHANGED <<SERVERS, listening, loc>>
    /\ UNCHANGED <<clock, cfg, SERVERS_LOCK, call, hist>>

\* The same step with the commented-out SERVERS_LOCK.release() of line 144
\* in force.
AcquireEndpoint_ReleasesRegistry(t) ==
    LET a == call[t].addr
        ch == call[t].channel
        ep == SERVERS[a]
        lt == IF ch \in DOMAIN ep.last_times THEN ep.last_times
              ELSE Put(ep.last_times, ch, loc[t].now - OneSecond)
    IN
    /\ pc[t] = "L143"
    /\ ep.lock = NoThread
    /\ SERVERS' = [SERVERS EXCEPT ![a] = [ep EXCEPT !.lock = t, !.last_times = lt]]
    /\ SERVERS_LOCK' = NoThread
    /\ loc' = [loc EXCEPT ![t].lock = TRUE]
    /\ eff' = [eff EXCEPT ![t].pre = ep.clients]
    /\ pc' = [pc EXCEPT ![t] = IF call[t].frame = "None" THEN "L148" ELSE "L157"]
    /\ UNCHANGED <<clock, cfg, listening, call, hist>>

\* SERVERS[local_address][0].acquire(); the locals are bound and the
\* channel gets its first last_times entry.
AcquireEndpoint(t) ==
    LET a == call[t].addr
        ch == call[t].channel
        ep == SERVERS[a]
        lt == IF ch \in DOMAIN ep.last_times THEN ep.last_times
              ELSE Put(ep.last_times, ch, loc[t].now - OneSecond)
    IN
    /\ pc[t] = "L143"
    /\ ep.lock = NoThread
    /\ SERVERS' = [SERVERS EXCEPT ![a] = [ep EXCEPT !.lock = t, !.last_times = lt]]
    /\ loc' = [loc EXCEPT ![t].lock = TRUE]
    /\ eff' = [eff EXCEPT ![t].pre = ep.clients]
    /\ pc' = [pc EXCEPT ![t] = IF call[t].frame = "None" THEN "L148" ELSE "L157"]
    /\ UNCHANGED <<clock, cfg, SERVERS_LOCK, listening, call, hist>>

\* for (sock, _, _, _, _) in clients.values(): a tuple of another length
\* cannot be unpacked.
UnpackFails(clients) == DOMAIN clients # {} /\ ClientTupleLen # ShutdownUnpackLen

\* if frame is None: close everything, drop the endpoint, return.
Shutdown(t) ==
    LET a == call[t].addr
        ep == SERVERS[a]
    IN
    /\ pc[t] = "L148"
    /\ IF UnpackFails(ep.clients)
       THEN /\ eff' = [eff EXCEPT ![t].raised = "unpack"]
            /\ pc' = [pc EXCEPT ![t] = "L234"]
            /\ UNCHANGED <<SERVERS, SERVERS_LOCK, listening, hist>>
       ELSE /\ SERVERS' = Del(SERVERS, a)
            /\ SERVERS_LOCK' = ReleasedRegistry(t)
            /\ listening' = [listening EXCEPT ![a] = @ - 1]
            /\ eff' = [eff EXCEPT ![t] =
                 Returned([eff[t] EXCEPT !.closed = DOMAIN ep.clients,
                                         !.serverClosed = TRUE,
                                         !.lockErr = @ \/ ep.lock # t \/ SERVERS_LOCK # t],
                          Del(SERVERS, a), a)]
            /\ hist' = [hist EXCEPT !.removedOnce[a] = TRUE,
                                    !.torn[a] = [c \in Channels |-> TRUE]]
            /\ pc' = [pc EXCEPT ![t] = "done"]
    /\ UNCHANGED <<clock, cfg, call, loc>>

\* select() on the listening socket, accept(), and the empty-table return.
Accept(t, remotes) ==
    LET a == call[t].addr
        ep == SERVERS[a]
    IN
    /\ pc[t] = "L157"
    /\ \E pending \in {"none"} \cup (remotes \ DOMAIN ep.clients) :
         LET cl == IF pending = "none" THEN ep.clients
                   ELSE Put(ep.clients, pending, NewClient(call[t]))
             ep2 == [ep EXCEPT !.clients = cl]
             e2 == [eff[t] EXCEPT !.accepted = IF pending = "none" THEN {} ELSE {pending}]
         IN  IF DOMAIN cl = {}
             THEN /\ ReleaseBothAndReturn(t, ep2, [e2 EXCEPT !.skipped = "noclients"])
                  /\ UNCHANGED loc
             ELSE /\ SERVERS' = [SERVERS EXCEPT ![a] = ep2]
                  /\ loc' = [loc EXCEPT ![t].ret = Keys(cl)]
                  /\ eff' = [eff EXCEPT ![t] = e2]
                  /\ pc' = [pc EXCEPT ![t] = "L168"]
                  /\ UNCHANGED SERVERS_LOCK
    /\ UNCHANGED <<clock, cfg, listening, call, hist>>

\* select() on the client sockets, the request loop, the receiver list and
\* the skip test.
Poll(t, inputs) ==
    LET a == call[t].addr
        ch == call[t].channel
        ep == SERVERS[a]
    IN
    /\ pc[t] = "L168"
    /\ \E inp \in [DOMAIN ep.clients -> inputs] :
         LET res == [r \in DOMAIN ep.clients |->
                       ProcessClient(ep.clients[r], inp[r], call[t],
                                     cfg.min_delay, cfg.max_quality)]
             kept == {r \in DOMAIN ep.clients : res[r].keep}
             cl == [r \in kept |-> res[r].rec]
             ep2 == [ep EXCEPT !.clients = cl]
             recv == ReceiversOf(cl, ch, loc[t].now)
             e2 == [eff[t] EXCEPT
                      !.closed = {r \in DOMAIN ep.clients : res[r].closed},
                      !.removed = (DOMAIN ep.clients) \ kept,
                      !.hdrs = {r \in DOMAIN ep.clients : res[r].hdr},
                      !.pages = {r \in DOMAIN ep.clients : res[r].page},
                      !.pageList = IF \E r \in DOMAIN ep.clients : res[r].page
                                   THEN SortedKeys(ep.last_times) ELSE <<>>,
                      !.inp = inp,
                      !.lt5 = ep.last_times,
                      !.step5 = cl]
             sent2 == loc[t].sent + SumBytes(res, DOMAIN ep.clients)
         IN  /\ loc' = [loc EXCEPT ![t].sent = sent2, ![t].receivers = recv]
             /\ IF recv = {} \/ RateLimited(ep.last_times, ch, loc[t].now, cfg.min_delay)
                THEN ReleaseBothAndReturn(t, ep2,
                        [e2 EXCEPT !.skipped = IF recv = {} THEN "noreceivers"
                                               ELSE "ratelimit"])
                ELSE /\ SERVERS' = [SERVERS EXCEPT ![a] = ep2]
                     /\ eff' = [eff EXCEPT ![t] = e2]
                     /\ pc' = [pc EXCEPT ![t] = "L211"]
                     /\ UNCHANGED SERVERS_LOCK
    /\ UNCHANGED <<clock, cfg, listening, call, hist>>

\* An encoder call inside the send loop.
EncodeCalls_PerReceiver(receivers) == Cardinality(receivers)

\* Number of _jpeg_compress calls of one round.
EncodeCalls(receivers) == 1

\* A round that leaves last_times alone.
StampChannel_Forgotten(last_times, channel, now) == last_times

\* last_times[channel] = now
StampChannel(last_times, channel, now) == [last_times EXCEPT ![channel] = now]

\* An encode at the lowest quality asked for.
EncodeQuality_Lowest(clients, receivers) ==
    LET qs == {clients[r].quality : r \in receivers}
    IN  CHOOSE q \in qs : \A other \in qs : q <= other

\* max([q for (a, (_, _, q, _, _, _)) in receivers])
EncodeQuality(clients, receivers) ==
    MaxOf({clients[r].quality : r \in receivers})

\* A send loop that gives up on every receiver once one send fails.
AfterSend_DropsAll(clients, receivers, ok, now) ==
    IF ok = receivers
    THEN [r \in DOMAIN clients |->
            IF r \in ok THEN [clients[r] EXCEPT !.last_sent = now] ELSE clients[r]]
    ELSE [r \in (DOMAIN clients) \ receivers |-> clients[r]]

\* The send loop: a receiver whose send succeeded is stored again with
\* last_sent = now, one whose send raised is deleted.
AfterSend(clients, receivers, ok, now) ==
    [r \in (DOMAIN clients) \ (receivers \ ok) |->
       IF r \in ok THEN [clients[r] EXCEPT !.last_sent = now] ELSE clients[r]]

\* A failed encode that still stamps the channel.
AfterEncodeError_Stamps(ep, channel, now) ==
    [ep EXCEPT !.last_times = StampChannel(@, channel, now)]

\* _jpeg_compress raises at line 211: control goes to the handler of line
\* 234 and none of lines 212-233 runs, so the endpoint is as it was.
AfterEncodeError(ep, channel, now) == ep

\* _jpeg_compress once, then the send loop and the channel timestamp.
Broadcast(t) ==
    LET a == call[t].addr
        ch == call[t].channel
        ep == SERVERS[a]
        now == loc[t].now
        recv == loc[t].receivers
        q == EncodeQuality(ep.clients, recv)
    IN
    /\ pc[t] = "L211"
    /\ \E encOk \in BOOLEAN :
         IF ~encOk
         THEN /\ eff' = [eff EXCEPT ![t].raised = "encode",
                                    ![t].encodes = EncodeCalls(recv),
                                    ![t].encQuality = q]
              /\ SERVERS' = [SERVERS EXCEPT ![a] = AfterEncodeError(ep, ch, now)]
              /\ pc' = [pc EXCEPT ![t] = "L234"]
              /\ UNCHANGED <<loc, hist>>
         ELSE \E ok \in SUBSET recv :
              LET cl == AfterSend(ep.clients, recv, ok, now)
              IN  /\ SERVERS' = [SERVERS EXCEPT ![a] =
                        [ep EXCEPT !.clients = cl,
                                   !.last_times = StampChannel(ep.last_times, ch, now)]]
                  /\ loc' = [loc EXCEPT ![t].sent = @ + FrameLen * Cardinality(ok)]
                  /\ eff' = [eff EXCEPT ![t].encodes = EncodeCalls(recv),
                                        ![t].encQuality = q,
                                        ![t].attempted = recv,
                                        ![t].delivered = ok,
                                        ![t].sentQuality = [r \in recv |-> q],
                                        ![t].removed = @ \cup (recv \ ok),
                                        ![t].prevSend = hist.lastSend[a][ch],
                                        ![t].prevTorn = hist.torn[a][ch]]
                  /\ hist' = IF ok = {} THEN hist
                             ELSE [hist EXCEPT !.lastSend[a][ch] = now,
                                               !.torn[a][ch] = FALSE]
                  /\ pc' = [pc EXCEPT ![t] = "L237"]
    /\ UNCHANGED <<clock, cfg, SERVERS_LOCK, listening, call>>

\* A handler that lets the exception out of handle_frame.
Except_Reraises(t) ==
    /\ pc[t] = "L234"
    /\ pc' = [pc EXCEPT ![t] = "done"]
    /\ eff' = [eff EXCEPT ![t].outcome = "raised"]
    /\ UNCHANGED <<clock, cfg, SERVERS, SERVERS_LOCK, listening, call, loc, hist>>

\* except Exception as ex: the exception is dropped (printed under debug).
Except(t) ==
    /\ pc[t] = "L234"
    /\ pc' = [pc EXCEPT ![t] = "L237"]
    /\ UNCHANGED <<clock, cfg, SERVERS, SERVERS_LOCK, listening, call, loc, eff, hist>>

\* if lock is not None: lock.release(); SERVERS_LOCK.release(); return
Finally(t) ==
    LET a == call[t].addr IN
    /\ pc[t] = "L237"
    /\ IF loc[t].lock
       THEN ReleaseBothAndReturn(t, SERVERS[a], eff[t])
       ELSE /\ SERVERS_LOCK' = ReleasedRegistry(t)
            /\ eff' = [eff EXCEPT ![t] =
                 Returned([eff[t] EXCEPT !.lockErr = @ \/ SERVERS_LOCK # t], SERVERS, a)]
            /\ pc' = [pc EXCEPT ![t] = "done"]
            /\ UNCHANGED SERVERS
    /\ UNCHANGED <<clock, cfg, listening, call, loc, hist>>

\* The caller takes (ret, sent) and is free to call again.
Return(t) ==
    /\ pc[t] = "done"
    /\ pc' = [pc EXCEPT ![t] = "idle"]
    /\ call' = [call EXCEPT ![t] = NoCall]
    /\ loc' = [loc EXCEPT ![t] = NoLoc]
    /\ eff' = [eff EXCEPT ![t] = NoEff]
    /\ UNCHANGED <<clock, cfg, SERVERS, SERVERS_LOCK, listening, hist>>

\* One thread, one endpoint, every request kind.
Next ==
    \/ \E c \in CallArgs({"img", "None"}, {"0"}, {"A"}) : Call("t1", c)
    \/ AcquireRegistry("t1", MaxTicks)
    \/ Resolve("t1")
    \/ AcquireEndpoint("t1")
    \/ Shutdown("t1")
    \/ Accept("t1", Remotes)
    \/ Poll("t1", ClientInputs)
    \/ Broadcast("t1")
    \/ Except("t1")
    \/ Finally("t1")
    \/ Return("t1")

Spec == Init /\ [][Next]_vars

\* Several threads on several endpoints, one client per endpoint.  The
\* record of a finished call is observation only, so it is collected
\* (Return) before another call takes SERVERS_LOCK; the timer stands still.
ConcInputs ==
    { Req("idle", "", EmptyDict, TRUE),
      Req("closed", "", EmptyDict, TRUE),
      Req("request", "?query", [channel |-> "0"], TRUE) }

ConcNext ==
    \E t \in Threads :
       \/ \E c \in CallArgs({"img", "None"}, {"0"}, Addrs) : Call(t, c)
       \/ ((\A u \in Threads : pc[u] # "done") /\ AcquireRegistry(t, 0))
       \/ Resolve(t)
       \/ AcquireEndpoint(t)
       \/ Shutdown(t)
       \/ Accept(t, {"r1"})
       \/ Poll(t, ConcInputs)
       \/ Broadcast(t)
       \/ Except(t)
       \/ Finally(t)
       \/ Return(t)

SpecConc == Init /\ [][ConcNext]_vars

\* One thread, one endpoint, two clients that negotiate channel, quality and
\* delay (a delay of 20000 ms among them); calls with and without a default
\* channel; the timer stands still.
NegInputs ==
    { Req("idle", "", EmptyDict, TRUE),
      Req("request", "", EmptyDict, TRUE),
      Req("request", "?query", [channel |-> "0", quality |-> 50], TRUE),
      Req("request", "?query", [channel |-> "0", quality |-> 99], TRUE),
      Req("request", "?query", [delay |-> 20000], TRUE) }

NegCalls ==
    [frame : {"img"}, channel : {"0"}, addr : {"A"},
     default_chan : {"", NoneChan}, default_quality : DefaultQualities,
     default_delay : DefaultDelays]

NegNext ==
    \/ \E c \in NegCalls : Call("t1", c)
    \/ AcquireRegistry("t1", 0)
    \/ Resolve("t1")
    \/ AcquireEndpoint("t1")
    \/ Accept("t1", Remotes)
    \/ Poll("t1", NegInputs)
    \/ Broadcast("t1")
    \/ Except("t1")
    \/ Finally("t1")
    \/ Return("t1")

SpecNeg == Init /\ [][NegNext]_vars

\* Two threads on two endpoints, frame and shutdown calls, the clock frozen. A started call's steps are weakly fair (a running thread is
\* scheduled and its socket calls return or raise), the acquisition of
\* SERVERS_LOCK is strongly fair (a waiting thread is not passed over for
\* ever); starting a call is the caller's choice and carries no fairness.
LiveInputs ==
    { Req("idle", "", EmptyDict, TRUE),
      Req("request", "?query", [channel |-> "0"], TRUE) }

\* Both threads stream to and shut down endpoint A; the second thread also
\* makes shutdown calls for endpoint B, which bind and at once close it.
LiveCalls(t) ==
    CallArgs({"img", "None"}, {"0"}, {"A"})
      \cup (IF t = "t2" THEN CallArgs({"None"}, {"0"}, {"B"}) ELSE {})

LiveStep(t) ==
    \/ Resolve(t)
    \/ AcquireEndpoint(t)
    \/ Shutdown(t)
    \/ Accept(t, {"r1"})
    \/ Poll(t, LiveInputs)
    \/ Broadcast(t)
    \/ Except(t)
    \/ Finally(t)
    \/ Return(t)

LiveNext ==
    \E t \in Threads :
       \/ \E c \in LiveCalls(t) : Call(t, c)
       \/ AcquireRegistry(t, 0)
       \/ LiveStep(t)

Fairness ==
    \A t \in Threads :
       /\ WF_vars(LiveStep(t))
       /\ SF_vars(AcquireRegistry(t, 0))

SpecLive == Init /\ [][LiveNext]_vars /\ Fairness

TypeOK ==
    /\ clock \in StartTime..(StartTime + MaxTicks * TickStep)
    /\ SERVERS_LOCK \in Threads \cup {NoThread}
    /\ DOMAIN SERVERS \subseteq Addrs
    /\ \A t \in Threads : pc[t] \in {"idle", "L131", "L136", "L143", "L148", "L157",
                                     "L168", "L211", "L234", "L237", "done"}

\* ---------------------------------------------------------------------
\* Properties
\* ---------------------------------------------------------------------
Done(t) == pc[t] = "done"

\* Steps at which the thread polls, reads, writes or closes a socket.
IOSteps == {"L148", "L157", "L168", "L211"}

\* Steps between SERVERS_LOCK.acquire() and the final release.
LockedSteps == {"L136", "L143", "L148", "L157", "L168", "L211", "L234", "L237"}

\* C1: handle_frame(None, ip, port) on an existing endpoint, whatever the
\* number of client records, closes every client socket and the listening
\* socket and removes the entry from SERVERS; an endpoint created afterwards
\* starts with an empty client table and an empty channel-time table.
C1_ShutdownClosesAndRemoves ==
    /\ \A t \in Threads :
         (Done(t) /\ call[t].frame = "None" /\ eff[t].preRegistered)
         => /\ eff[t].closed = DOMAIN eff[t].pre
            /\ eff[t].serverClosed
            /\ ~eff[t].registeredAtReturn
    /\ \A t \in Threads :
         (pc[t] = "L143" /\ eff[t].created)
         => /\ DOMAIN SERVERS[call[t].addr].clients = {}
            /\ DOMAIN SERVERS[call[t].addr].last_times = {}

\* C2: in every round a frame chunk is written only to records that at the
\* receiver computation have headers_sent, the call's channel and
\* now - last_sent >= delay; every other record gets no chunk and keeps its
\* last_sent.
C2_OnlyReceiversGetChunk ==
    \A t \in Threads :
      (Done(t) /\ call[t].frame = "img")
      => \A r \in DOMAIN eff[t].step5 :
           LET rec == eff[t].step5[r] IN
           ~(/\ rec.headers_sent
             /\ rec.chan = call[t].channel
             /\ loc[t].now - rec.last_sent >= rec.delay)
           => /\ r \notin eff[t].attempted
              /\ r \in DOMAIN eff[t].post
              /\ eff[t].post[r].last_sent = rec.last_sent

\* C2 witness: a round that sent a chunk to one client while another record
\* of the table was not a receiver.
C2_Witness ==
    \E t \in Threads :
      /\ Done(t)
      /\ eff[t].delivered # {}
      /\ (DOMAIN eff[t].step5) \ eff[t].attempted # {}

\* C3 as stated: two calls on the same channel less than min_delay apart
\* never both send a frame chunk, in any sequence of calls.
C3_RateLimitAnySequence ==
    \A t \in Threads :
      (Done(t) /\ eff[t].delivered # {} /\ eff[t].prevSend # NoTime)
      => loc[t].now - eff[t].prevSend >= cfg.min_delay

\* C3 amended: two calls on the same channel less than min_delay apart never
\* both send a frame chunk, provided no shutdown removed the endpoint
\* between them.
C3_RateLimitWithinLifetime ==
    \A t \in Threads :
      (Done(t) /\ eff[t].delivered # {} /\ eff[t].prevSend # NoTime
               /\ ~eff[t].prevTorn)
      => loc[t].now - eff[t].prevSend >= cfg.min_delay

\* C3 witness: a second sending round on the channel in the lifetime of one
\* endpoint.
C3_Witness ==
    \E t \in Threads :
      /\ Done(t)
      /\ eff[t].delivered # {}
      /\ eff[t].prevSend # NoTime
      /\ ~eff[t].prevTorn

\* C4: a call invokes the encoder exactly once when it sends a chunk to at
\* least one receiver, and not at all when there are no clients, no
\* receivers, the channel rate limit applies, or the call is a shutdown.
C4_EncodeOncePerRound ==
    \A t \in Threads :
      Done(t)
      => /\ eff[t].delivered # {} => eff[t].encodes = 1
         /\ (\/ call[t].frame = "None"
             \/ eff[t].skipped \in {"noclients", "noreceivers", "ratelimit"})
            => eff[t].encodes = 0

\* C4 witness: a round that delivered the chunk to two receivers.
C4_Witness ==
    \E t \in Threads :
      /\ Done(t)
      /\ Cardinality(eff[t].delivered) = 2
      /\ eff[t].encodes = 1

\* C5: at most one endpoint and one bound listening socket exist per
\* (ip, port), also with concurrent callers, and every caller past the
\* lookup works on the registered endpoint.
C5_OneEndpointPerAddress ==
    /\ \A a \in Addrs :
         /\ listening[a] <= 1
         /\ (listening[a] = 1) <=> (a \in DOMAIN SERVERS)
    /\ \A t \in Threads :
         pc[t] \in {"L143", "L148", "L157", "L168", "L211"}
         => call[t].addr \in DOMAIN SERVERS

\* C5 witness: a thread that called for an address with no endpoint finds,
\* at its lookup, the endpoint another thread created in the meantime.
C5_Witness ==
    \E u \in Threads :
      /\ pc[u] = "L143"
      /\ eff[u].unseenAtCall
      /\ eff[u].preRegistered
      /\ listening[call[u].addr] = 1

\* C6 as stated: SERVERS_LOCK is never held while a socket is polled, read
\* or written.
C6_RegistryLockNotHeldAcrossIO ==
    \A t \in Threads : pc[t] \in IOSteps => SERVERS_LOCK # t

\* C6 amended: SERVERS_LOCK is held from its acquisition to the end of the
\* call, socket I/O included, so no two calls, on the same or on different
\* endpoints, are in their accept/parse/broadcast steps at the same time.
C6_RegistryLockHeldThroughout ==
    /\ \A t \in Threads : pc[t] \in LockedSteps => SERVERS_LOCK = t
    /\ \A t, u \in Threads :
         (t # u /\ pc[t] \in IOSteps) => pc[u] \notin IOSteps

\* C6 witness: a call on one endpoint is in its socket steps while a call on
\* another endpoint waits for SERVERS_LOCK.
C6_Witness ==
    \E t, u \in Threads :
      /\ pc[t] = "L168"
      /\ pc[u] = "L131"
      /\ call[t].addr # call[u].addr
      /\ call[u].addr \in DOMAIN SERVERS

\* C7: when a call ends, on any exit path, it holds neither SERVERS_LOCK nor
\* an endpoint lock and has released no lock it did not hold; with no call
\* in progress both locks are free.
C7_LocksReleasedAtExit ==
    /\ \A t \in Threads :
         Done(t)
         => /\ SERVERS_LOCK # t
            /\ \A a \in Addrs : ~HoldsEndpoint(t, a)
            /\ ~eff[t].lockErr
    /\ (\A t \in Threads : pc[t] \in {"idle", "L131", "done"})
       => /\ SERVERS_LOCK = NoThread
          /\ \A a \in DOMAIN SERVERS : SERVERS[a].lock = NoThread

\* C7 witness: a call that failed in the encoder has ended on an endpoint
\* that is still registered.
C7_Witness ==
    \E t \in Threads :
      /\ Done(t)
      /\ eff[t].raised = "encode"
      /\ loc[t].lock
      /\ call[t].addr \in DOMAIN SERVERS

\* C8: a shutdown call for an address whose endpoint an earlier shutdown
\* removed returns ([], 0) normally and leaves no entry for the address.
C8_ShutdownIdempotent ==
    \A t \in Threads :
      (Done(t) /\ call[t].frame = "None" /\ ~eff[t].preRegistered
               /\ hist.removedOnce[call[t].addr])
      => /\ loc[t].ret = {}
         /\ loc[t].sent = 0
         /\ eff[t].outcome = "returned"
         /\ ~eff[t].registeredAtReturn

\* C8 witness: the second shutdown has run to its end.
C8_Witness ==
    \E t \in Threads :
      /\ Done(t)
      /\ call[t].frame = "None"
      /\ ~eff[t].preRegistered
      /\ hist.removedOnce[call[t].addr]
      /\ eff[t].serverClosed

\* C9 as stated: the returned address list is the set of addresses in the
\* client table when the call returns.
C9_ReturnedListIsTableAtReturn ==
    \A t \in Threads :
      (Done(t) /\ call[t].frame = "img")
      => loc[t].ret = DOMAIN eff[t].post

\* C9 amended: the returned address list is the set of addresses in the
\* client table right after the accept step; the table at return is that
\* list without the clients removed during the round.
C9_ReturnedListIsTableAfterAccept ==
    \A t \in Threads :
      (Done(t) /\ call[t].frame = "img" /\ eff[t].raised # "bind")
      => /\ loc[t].ret = (DOMAIN eff[t].pre) \cup eff[t].accepted
         /\ DOMAIN eff[t].post = loc[t].ret \ eff[t].removed

\* C9 witness: a round that removed a client has returned.
C9_Witness ==
    \E t \in Threads :
      /\ Done(t)
      /\ call[t].frame = "img"
      /\ eff[t].removed # {}
      /\ eff[t].removed \subseteq loc[t].ret

\* C10 as stated: a bind/listen failure and an encoder failure reach the
\* caller as an error outcome.
C10_FailuresSurfaced ==
    \A t \in Threads :
      (Done(t) /\ eff[t].raised \in {"bind", "encode"})
      => eff[t].outcome = "raised"

\* C10 amended: a bind/listen failure and an encoder failure are caught
\* inside handle_frame, which returns (ret, sent) normally: ([], 0) with no
\* endpoint registered after a bind failure, and the client list with no
\* chunk sent and the endpoint still registered after an encoder failure.
C10_FailuresSwallowed ==
    \A t \in Threads :
      (Done(t) /\ eff[t].raised \in {"bind", "encode"})
      => /\ eff[t].outcome = "returned"
         /\ eff[t].raised = "bind"
            => (loc[t].ret = {} /\ loc[t].sent = 0 /\ ~eff[t].registeredAtReturn)
         /\ eff[t].raised = "encode"
            => (eff[t].delivered = {} /\ eff[t].registeredAtReturn
                /\ loc[t].ret # {})

\* C10 witness: both failures have been returned from.
C10_Witness ==
    \E t \in Threads :
      /\ Done(t)
      /\ eff[t].raised = "bind"
      /\ eff[t].outcome = "returned"

\* C11: the multipart stream header is sent at most once per connection: a
\* client that already has headers_sent and sends further request data is
\* re-negotiated but is not sent the stream header again.
C11_HeaderSentOnce ==
    \A t \in Threads :
      Done(t)
      => \A r \in eff[t].hdrs :
           r \in DOMAIN eff[t].pre => ~eff[t].pre[r].headers_sent

\* C12 as stated: no call made less than the negotiated delay after the
\* connection was accepted sends that client a chunk; in particular not the
\* call that accepted it.
C12_NoChunkWithinDelayOfAccept ==
    \A t \in Threads :
      Done(t)
      => \A r \in eff[t].accepted :
           (r \in DOMAIN eff[t].step5 /\ eff[t].step5[r].delay > 0)
           => r \notin eff[t].delivered

\* C12 amended: the delay is measured from last_sent, which is 0.0 for a
\* client accepted in this round and the time of its last chunk otherwise;
\* a client sent a chunk has now - last_sent >= delay, gets one chunk and has
\* last_sent set to now.
C12_DelayMeasuredFromLastSent ==
    \A t \in Threads :
      Done(t)
      => \A r \in eff[t].delivered :
           /\ loc[t].now - eff[t].step5[r].last_sent >= eff[t].step5[r].delay
           /\ r \in eff[t].accepted => eff[t].step5[r].last_sent = 0
           /\ eff[t].post[r].last_sent = loc[t].now

\* C12 witness: the round that accepted a client also sent it a chunk.
C12_Witness ==
    \E t \in Threads :
      /\ Done(t)
      /\ eff[t].accepted \cap eff[t].delivered # {}

\* C13: after a request is processed the client's delay is
\* max(min_delay, d/1000 s) when the request carries delay=d, and min_delay
\* when it carries no delay, whatever default_delay and the previously
\* negotiated delay are.
C13_NegotiatedDelay ==
    \A t \in Threads :
      Done(t)
      => \A r \in eff[t].hdrs :
           LET params == eff[t].inp[r].params IN
           eff[t].step5[r].delay =
             IF "delay" \in DOMAIN params
             THEN Max(cfg.min_delay, params.delay * (OneSecond \div MsPerSecond))
             ELSE cfg.min_delay

\* C14: a round that encodes does so at the maximum of its receivers'
\* negotiated qualities, sends that one encoding to every receiver, and with
\* max_quality constant across calls never encodes above max_quality.
C14_EncodeAtMaxReceiverQuality ==
    \A t \in Threads :
      (Done(t) /\ eff[t].encodes > 0)
      => LET recv == {r \in DOMAIN eff[t].step5 :
                        /\ eff[t].step5[r].headers_sent
                        /\ eff[t].step5[r].chan = call[t].channel
                        /\ loc[t].now - eff[t].step5[r].last_sent
                             >= eff[t].step5[r].delay}
         IN  /\ recv # {}
             /\ \E r \in recv : eff[t].encQuality = eff[t].step5[r].quality
             /\ \A r \in recv : eff[t].encQuality >= eff[t].step5[r].quality
             /\ \A r \in eff[t].attempted : eff[t].sentQuality[r] = eff[t].encQuality
             /\ eff[t].encQuality <= cfg.max_quality

\* C14 witness: a round delivered one encoding to two receivers that had
\* negotiated different qualities.
C14_Witness ==
    \E t \in Threads :
      /\ Done(t)
      /\ Cardinality(eff[t].delivered) = 2
      /\ \E r, q \in eff[t].delivered :
           eff[t].step5[r].quality < eff[t].step5[q].quality

\* C15: in a sending round a receiver whose send fails is the only record
\* removed for it; every receiver of the round is attempted, and each one whose
\* send succeeded keeps channel, quality, delay and headers_sent and gets
\* last_sent = now; clients that were not receivers are untouched.
C15_SendFailureRemovesOnlyThatClient ==
    \A t \in Threads :
      (Done(t) /\ eff[t].attempted # {})
      => /\ eff[t].attempted = loc[t].receivers
         /\ eff[t].delivered \subseteq eff[t].attempted
         /\ DOMAIN eff[t].post = (DOMAIN eff[t].step5) \ (eff[t].attempted \ eff[t].delivered)
         /\ \A r \in eff[t].delivered :
              eff[t].post[r] = [eff[t].step5[r] EXCEPT !.last_sent = loc[t].now]
         /\ \A r \in (DOMAIN eff[t].step5) \ eff[t].attempted :
              eff[t].post[r] = eff[t].step5[r]

\* C15 witness: one round in which one receiver's send failed and another's
\* succeeded.
C15_Witness ==
    \E t \in Threads :
      /\ Done(t)
      /\ eff[t].delivered # {}
      /\ eff[t].attempted \ eff[t].delivered # {}

\* C16 (as stated): a round that skips encoding and sending returns zero
\* bytes sent, also when it processed a client's request.
C16_SkippedRoundSendsZero ==
    \A t \in Threads :
      (Done(t) /\ eff[t].skipped \in {"noreceivers", "ratelimit"})
      => loc[t].sent = 0

\* C16 (amended): a round that skips encoding and sending returns the bytes
\* of the stream headers it wrote while processing requests, HeaderLen for
\* each client whose header was sent, and zero only when there was none.
C16_SkippedRoundCountsHeaders ==
    \A t \in Threads :
      (Done(t) /\ eff[t].skipped \in {"noreceivers", "ratelimit"})
      => loc[t].sent = HeaderLen * Cardinality(eff[t].hdrs)

\* C16 witness: a skipped round that wrote a stream header.
C16_Witness ==
    \E t \in Threads :
      /\ Done(t)
      /\ eff[t].skipped \in {"noreceivers", "ratelimit"}
      /\ eff[t].hdrs # {}
      /\ loc[t].sent > 0

\* C17: a client whose read failed, whose read was empty or whose write
\* failed has, at the end of that round, had its socket closed by the server
\* and its record deleted from the client table.
C17_FailedClientClosedAndRemoved ==
    \A t \in Threads :
      Done(t)
      => \A r \in DOMAIN eff[t].inp :
           (\/ eff[t].inp[r].kind \in {"closed", "error"}
            \/ (eff[t].inp[r].kind = "request" /\ ~eff[t].inp[r].sendOk)
            \/ r \in eff[t].attempted \ eff[t].delivered)
           => (r \in eff[t].closed /\ r \notin DOMAIN eff[t].post)

\* C18: a client that asks for index.html (or for the empty path while
\* default_chan is None), and whose socket accepts writes, is served the
\* directory page listing the endpoint's channels in sorted order, has its
\* socket closed and its record removed in that round, and is sent neither
\* the stream header nor a chunk.
C18_IndexPageServedThenClosed ==
    \A t \in Threads :
      Done(t)
      => \A r \in DOMAIN eff[t].inp :
           (/\ eff[t].inp[r].kind = "request"
            /\ WantsIndex(eff[t].inp[r], call[t])
            /\ eff[t].inp[r].sendOk)
           => /\ r \in eff[t].pages
              /\ eff[t].pageList = SortedKeys(eff[t].lt5)
              /\ r \in eff[t].closed
              /\ r \notin DOMAIN eff[t].post
              /\ r \notin eff[t].hdrs
              /\ r \notin eff[t].attempted

\* C19: a round whose encoder call fails leaves the endpoint registered,
\* sends nothing, and leaves the client table and the channel timestamps as
\* they were when the receivers were computed: no record removed, no
\* last_sent changed, last_times[channel] not updated.
C19_EncodeFailureChangesNothing ==
    \A t \in Threads :
      (Done(t) /\ eff[t].raised = "encode")
      => /\ eff[t].registeredAtReturn
         /\ eff[t].post = eff[t].step5
         /\ eff[t].ltPost = eff[t].lt5
         /\ eff[t].attempted = {}
         /\ eff[t].delivered = {}

\* C19 witness: a returned round in which the encoder failed while a
\* receiver was due a chunk.
C19_Witness ==
    \E t \in Threads :
      /\ Done(t)
      /\ eff[t].raised = "encode"
      /\ loc[t].receivers # {}
      /\ eff[t].encodes > 0

====
